---- MODULE Spec2Model ----
(***************************************************************************)
(* Model of pre_commit_hook_ensure_sops/__main__.py: validate_enc,         *)
(* check_file and main.                                                    *)
(*                                                                         *)
(* Python strings are sequences of one-character strings, so that          *)
(* startswith, endswith, strip, split, join and the substring test are     *)
(* computed and not assumed.  A parsed document is a tree of records       *)
(*   [t, s, keys, kids]                                                    *)
(* with t in {"str","num","bool","null","list","dict"}; s is the text of a *)
(* str, keys the keys of a dict in document order, kids the elements of a  *)
(* list or the values of a dict.                                           *)
(***************************************************************************)
EXTENDS Integers, Sequences, FiniteSets, TLC

VARIABLES
    argv,             \* args.filenames
    fs,               \* the content found on disk under each filename of argv
    cfg,              \* what is found at .sops.yaml
    i,                \* position of the for loop of main in argv
    failed_messages,  \* main's failed_messages
    results,          \* history: the outcome of every check_file call so far
    pc,               \* "loop", "returned" (main returned) or "crashed"
    exit_code,        \* the process exit status, -1 while running
    stdout            \* the lines printed

vars == <<argv, fs, cfg, i, failed_messages, results, pc, exit_code, stdout>>

----------------------------------------------------------------------------
(* Bounds of the model *)

\* nodes (leaves and containers) below the root mapping of a document
MaxNodes == 3
\* filenames on main's command line
MaxFiles == 2

----------------------------------------------------------------------------
(* Literals of the program *)

SOPS == <<"s", "o", "p", "s">>
ENC_PREFIX == <<"E", "N", "C", "[">>
DOT_YAML == <<".", "y", "a", "m", "l">>
SOPS_CONFIG == <<".", "s", "o", "p", "s", ".", "y", "a", "m", "l">>
STRIP_CHARS == {"'", "$", "^", "(", ")"}
PIPE == "|"
COMMA == ","

NOT_VALID_TEXT == ": Not valid JSON or YAML, is not properly encrypted"
NO_SOPS_TEXT == ": sops metadata key not found in file, is not properly encrypted"
NOT_READABLE_TEXT == " is not readable"
UNENCRYPTED_TEXT == ": Unencrypted values found nested under keys: "
VALID_TEXT == ": Valid encryption"

----------------------------------------------------------------------------
(* Structured values *)

Str(s) == [t |-> "str", s |-> s, keys |-> <<>>, kids |-> <<>>]
Num == [t |-> "num", s |-> <<>>, keys |-> <<>>, kids |-> <<>>]
Bool == [t |-> "bool", s |-> <<>>, keys |-> <<>>, kids |-> <<>>]
Null == [t |-> "null", s |-> <<>>, keys |-> <<>>, kids |-> <<>>]
List(kids) == [t |-> "list", s |-> <<>>, keys |-> <<>>, kids |-> kids]
Dict(keys, kids) == [t |-> "dict", s |-> <<>>, keys |-> keys, kids |-> kids]

----------------------------------------------------------------------------
(* String operations of Python, on sequences of characters *)

\* s.startswith(p)
StartsWith(s, p) == Len(s) >= Len(p) /\ SubSeq(s, 1, Len(p)) = p

\* s.endswith(p)
EndsWith(s, p) == Len(s) >= Len(p) /\ SubSeq(s, Len(s) - Len(p) + 1, Len(s)) = p

\* p in s, for two strings
IsSubstring(p, s) ==
    \E a \in 0..(Len(s) - Len(p)) : SubSeq(s, a + 1, a + Len(p)) = p

\* s.strip(chars): drop the leading and the trailing characters that are in chars
RECURSIVE LStrip(_, _)
LStrip(s, chars) ==
    IF s # <<>> /\ Head(s) \in chars THEN LStrip(Tail(s), chars) ELSE s

RECURSIVE RStrip(_, _)
RStrip(s, chars) ==
    IF s # <<>> /\ s[Len(s)] \in chars
    THEN RStrip(SubSeq(s, 1, Len(s) - 1), chars)
    ELSE s

Strip(s, chars) == RStrip(LStrip(s, chars), chars)

\* s.split(sep) for a one-character sep; "".split(sep) is [""]
RECURSIVE SplitFrom(_, _, _)
SplitFrom(s, sep, cur) ==
    IF s = <<>> THEN <<cur>>
    ELSE IF Head(s) = sep THEN <<cur>> \o SplitFrom(Tail(s), sep, <<>>)
    ELSE SplitFrom(Tail(s), sep, Append(cur, Head(s)))

Split(s, sep) == SplitFrom(s, sep, <<>>)

\* sep.join(strs)
RECURSIVE Join(_, _)
Join(strs, sep) ==
    IF strs = <<>> THEN <<>>
    ELSE IF Len(strs) = 1 THEN strs[1]
    ELSE strs[1] \o <<sep>> \o Join(Tail(strs), sep)

\* x in lst, for a list of strings
InList(x, lst) == \E j \in 1..Len(lst) : lst[j] = x

----------------------------------------------------------------------------
(* validate_enc *)

\* validate_enc with the test of the commented-out line 29: the empty string is
\* no longer let through.
RECURSIVE validate_enc_line29(_)
validate_enc_line29(item) ==
    IF item.t = "str"
    THEN StartsWith(item.s, ENC_PREFIX)
    ELSE IF item.t \in {"list", "dict"}
    THEN \A j \in 1..Len(item.kids) : validate_enc_line29(item.kids[j])
    ELSE FALSE

\* A str passes when it is empty or starts with ENC[; any other str falls off
\* the end of the function, which returns None: all() and `not` read None as
\* false, so the model returns FALSE for it.
RECURSIVE validate_enc(_)
validate_enc(item) ==
    IF item.t = "str"
    THEN item.s = <<>> \/ StartsWith(item.s, ENC_PREFIX)
    ELSE IF item.t = "list"
    THEN \A j \in 1..Len(item.kids) : validate_enc(item.kids[j])
    ELSE IF item.t = "dict"
    THEN \A j \in 1..Len(item.kids) : validate_enc(item.kids[j])
    ELSE FALSE

----------------------------------------------------------------------------
(* check_file *)

Msg(prefix, text, keys) == [prefix |-> prefix, text |-> text, keys |-> keys]
NoMsg == Msg(<<>>, "", <<>>)

\* What a call of check_file does: it returns (valid, message) or raises exc.
\* scanned, encrypted_regex, checked and invalid_keys record the locals of the
\* call: whether the for loop over the document ran, the pattern list it used,
\* the keys validate_enc was applied to, and the keys collected as invalid.
Outcome(outcome, valid, message, exc, scanned, regex, checked, invalid) ==
    [outcome |-> outcome, valid |-> valid, message |-> message, exc |-> exc,
     scanned |-> scanned, encrypted_regex |-> regex, checked |-> checked,
     invalid_keys |-> invalid]

Raise(exc) == Outcome("raise", FALSE, NoMsg, exc, FALSE, <<>>, <<>>, <<>>)
ReturnEarly(message) == Outcome("return", FALSE, message, "", FALSE, <<>>, <<>>, <<>>)

\* lines 49-52: the parser is chosen from the suffix of the filename
LoaderFor(filename) == IF EndsWith(filename, DOT_YAML) THEN "yaml" ELSE "json"

\* lines 56-64.  content is what is on disk:
\*   kind "missing"      open() raises (outside the try): OSError
\*   kind "undecodable"  the read inside the loader raises UnicodeDecodeError
\*   kind "malformed"    the text does not parse; err is the exception the YAML
\*                       parser raises for it (ParserError, or ScannerError, which
\*                       is not a ParserError); json.load raises JSONDecodeError
\*   kind "ok"           the text parses to doc
\* Only ParserError is caught.
Load(filename, content) ==
    LET loader == LoaderFor(filename) IN
    IF content.kind = "missing" THEN [outcome |-> "raise", exc |-> "OSError", doc |-> Null]
    ELSE IF content.kind = "undecodable"
    THEN [outcome |-> "raise", exc |-> "UnicodeDecodeError", doc |-> Null]
    ELSE IF content.kind = "malformed"
    THEN IF loader = "yaml"
         THEN IF content.err = "ParserError"
              THEN [outcome |-> "ParserError", exc |-> "", doc |-> Null]
              ELSE [outcome |-> "raise", exc |-> content.err, doc |-> Null]
         ELSE [outcome |-> "raise", exc |-> "JSONDecodeError", doc |-> Null]
    ELSE [outcome |-> "doc", exc |-> "", doc |-> content.doc]

\* SopsIn with the emptiness of the document tested in place of the key
\* (`if not doc`).
SopsInAnyKey(doc) ==
    IF doc.t = "dict" THEN (IF doc.keys # <<>> THEN "True" ELSE "False")
    ELSE IF doc.t = "list" THEN (IF doc.kids # <<>> THEN "True" ELSE "False")
    ELSE IF doc.t = "str" THEN (IF doc.s # <<>> THEN "True" ELSE "False")
    ELSE "TypeError"

\* line 66, `"sops" not in doc`, read positively: "True", "False", or "TypeError"
\* when doc is None, a number or a boolean (not iterable).  On a dict it is key
\* membership, on a list element equality, on a str the substring test.
SopsIn(doc) ==
    IF doc.t = "dict" THEN (IF InList(SOPS, doc.keys) THEN "True" ELSE "False")
    ELSE IF doc.t = "list"
    THEN (IF \E j \in 1..Len(doc.kids) : doc.kids[j] = Str(SOPS) THEN "True" ELSE "False")
    ELSE IF doc.t = "str" THEN (IF IsSubstring(SOPS, doc.s) THEN "True" ELSE "False")
    ELSE "TypeError"

\* lines 76-90.  c is what is at .sops.yaml:
\*   kind "absent"       open() raises; caught by `except Exception`
\*   kind "parser_error" yaml.load raises ParserError: check_file returns
\*                       (False, ".sops.yaml is not readable")
\*   kind "other_error"  yaml.load raises something else (ScannerError,
\*                       UnicodeDecodeError); caught by `except Exception`
\*   kind "bad_shape"    config["creation_rules"][0]["encrypted_regex"] or the
\*                       .strip on it raises; caught by `except Exception`
\*   kind "ok"           encrypted_regex is the str c.regex
LoadConfig(c) ==
    IF c.kind = "parser_error" THEN [returned |-> TRUE, encrypted_regex |-> <<>>]
    ELSE IF c.kind = "ok"
    THEN [returned |-> FALSE,
          encrypted_regex |-> Split(Strip(c.regex, STRIP_CHARS), PIPE)]
    ELSE [returned |-> FALSE, encrypted_regex |-> <<>>]

\* line 93: the test that decides whether validate_enc is applied to key k
Selected(k, encrypted_regex) ==
    k # SOPS /\ (InList(k, encrypted_regex) \/ encrypted_regex = <<>>)

\* the positions of a sequence of length n, in order
Positions(n) == [j \in 1..n |-> j]

\* lines 92-97.  For a dict the loop visits the keys in document order.  A list
\* or a str that passed line 66 is iterated too: its elements (characters) are
\* the k, and the first selected one raises TypeError, at doc[k] or, for a
\* number used as an index, at the latest in ','.join(invalid_keys).
Scan(doc, encrypted_regex) ==
    IF doc.t = "dict"
    THEN LET sel == SelectSeq(Positions(Len(doc.keys)),
                              LAMBDA j : Selected(doc.keys[j], encrypted_regex))
             bad == SelectSeq(sel, LAMBDA j : ~validate_enc(doc.kids[j]))
         IN [raised |-> FALSE,
             checked |-> [n \in 1..Len(sel) |-> doc.keys[sel[n]]],
             invalid_keys |-> [n \in 1..Len(bad) |-> doc.keys[bad[n]]]]
    ELSE LET hit == IF doc.t = "list"
                    THEN \E j \in 1..Len(doc.kids) :
                            /\ doc.kids[j] # Str(SOPS)
                            /\ \/ encrypted_regex = <<>>
                               \/ /\ doc.kids[j].t = "str"
                                  /\ InList(doc.kids[j].s, encrypted_regex)
                    ELSE \E j \in 1..Len(doc.s) :
                            \/ encrypted_regex = <<>>
                            \/ InList(<<doc.s[j]>>, encrypted_regex)
         IN [raised |-> hit, checked |-> <<>>, invalid_keys |-> <<>>]

\* lines 38-105
check_file(filename, content, c) ==
    LET ld == Load(filename, content) IN
    IF ld.outcome = "raise" THEN Raise(ld.exc)
    ELSE IF ld.outcome = "ParserError"
    THEN ReturnEarly(Msg(filename, NOT_VALID_TEXT, <<>>))
    ELSE LET doc == ld.doc
             has == SopsIn(doc)
         IN IF has = "TypeError" THEN Raise("TypeError")
            ELSE IF has = "False"
            THEN ReturnEarly(Msg(filename, NO_SOPS_TEXT, <<>>))
            ELSE LET conf == LoadConfig(c) IN
                 IF conf.returned
                 THEN ReturnEarly(Msg(SOPS_CONFIG, NOT_READABLE_TEXT, <<>>))
                 ELSE LET sc == Scan(doc, conf.encrypted_regex) IN
                      IF sc.raised THEN Raise("TypeError")
                      ELSE IF sc.invalid_keys # <<>>
                      THEN Outcome("return", FALSE,
                                   Msg(filename, UNENCRYPTED_TEXT,
                                       Join(sc.invalid_keys, COMMA)),
                                   "", TRUE, conf.encrypted_regex, sc.checked,
                                   sc.invalid_keys)
                      ELSE Outcome("return", TRUE,
                                   Msg(filename, VALID_TEXT, <<>>),
                                   "", TRUE, conf.encrypted_regex, sc.checked,
                                   sc.invalid_keys)

----------------------------------------------------------------------------
(* main *)

\* LoopBody without the `if not is_valid` of line 119: every message is kept.
LoopBodyKeepAll ==
    /\ pc = "loop"
    /\ i <= Len(argv)
    /\ LET f == argv[i]
           r == check_file(f, fs[f], cfg)
       IN /\ results' = Append(results, r)
          /\ IF r.outcome = "raise"
             THEN /\ pc' = "crashed"
                  /\ exit_code' = 1
                  /\ UNCHANGED <<i, failed_messages>>
             ELSE /\ failed_messages' = Append(failed_messages, r.message)
                  /\ i' = i + 1
                  /\ UNCHANGED <<pc, exit_code>>
    /\ UNCHANGED <<argv, fs, cfg, stdout>>

\* lines 116-120: one iteration of the for loop.  An exception raised by
\* check_file is caught nowhere: main does not return, nothing has been printed
\* yet, and the interpreter exits with status 1.
LoopBody ==
    /\ pc = "loop"
    /\ i <= Len(argv)
    /\ LET f == argv[i]
           r == check_file(f, fs[f], cfg)
       IN /\ results' = Append(results, r)
          /\ IF r.outcome = "raise"
             THEN /\ pc' = "crashed"
                  /\ exit_code' = 1
                  /\ UNCHANGED <<i, failed_messages>>
             ELSE /\ failed_messages' = IF ~r.valid
                                        THEN Append(failed_messages, r.message)
                                        ELSE failed_messages
                  /\ i' = i + 1
                  /\ UNCHANGED <<pc, exit_code>>
    /\ UNCHANGED <<argv, fs, cfg, stdout>>

\* lines 122-126: after the loop.  stdout holds the printed lines, which the
\* code joins with "\n".
Report ==
    /\ pc = "loop"
    /\ i > Len(argv)
    /\ IF failed_messages # <<>>
       THEN stdout' = failed_messages /\ exit_code' = 1
       ELSE stdout' = <<>> /\ exit_code' = 0
    /\ pc' = "returned"
    /\ UNCHANGED <<argv, fs, cfg, i, failed_messages, results>>

Next == LoopBody \/ Report

----------------------------------------------------------------------------
(* Inputs *)

EMPTY == <<>>
ENC_X == <<"E", "N", "C", "[", "x">>
PLAIN == <<"E", "N", "C">>
KEY_A == <<"a">>
KEY_B == <<"b">>

\* The six kinds of leaf; PLAIN is a plaintext that shares three characters
\* with the marker.
Leaves == {Str(EMPTY), Str(ENC_X), Str(PLAIN), Num, Bool, Null}

\* The keys of a nested dict: "x", "xx", ...  (validate_enc reads only values)
InnerKeys(n) == [j \in 1..n |-> [q \in 1..j |-> "x"]]

\* The values of n nodes, given the forests of n - 1 nodes
TreesOver(n, forests) ==
    (IF n = 1 THEN Leaves ELSE {})
    \cup {List(f) : f \in forests}
    \cup {Dict(InnerKeys(Len(f)), f) : f \in forests}

\* tree[n]: the values of exactly n nodes; forest[n + 1]: the sequences of values
\* of n nodes in total.  Built from one node upwards.
RECURSIVE Grow(_, _, _)
Grow(n, tree, forest) ==
    IF Len(tree) >= n THEN [tree |-> tree, forest |-> forest]
    ELSE LET k == Len(tree) + 1
             t == Append(tree, TreesOver(k, forest[k]))
             f == UNION {{<<v>> \o g : v \in t[m], g \in forest[k - m + 1]} :
                            m \in 1..k}
         IN Grow(n, t, Append(forest, f))

Table == Grow(MaxNodes, <<>>, <<{<<>>}>>)

Forest(n) == Table.forest[n + 1]

\* The top-level keys other than the metadata key
PlainKeys == {KEY_A, KEY_B}

\* The values tried under the metadata key: none, and one with a plaintext leaf
SopsValues == {Dict(<<>>, <<>>), Dict(<<<<"x">>>>, <<Str(PLAIN)>>)}

InsertAt(q, p, x) == SubSeq(q, 1, p - 1) \o <<x>> \o SubSeq(q, p, Len(q))

\* doc as it is, and doc with the metadata key at any position
WithMetadata(doc) ==
    {doc} \cup {Dict(InsertAt(doc.keys, p, SOPS), InsertAt(doc.kids, p, v)) :
                   p \in 1..(Len(doc.keys) + 1), v \in SopsValues}

InjSeqs(S, n) ==
    {q \in [1..n -> S] : \A a, b \in 1..n : a # b => q[a] # q[b]}

\* Parsed documents whose root is not a mapping.
NonMappingRoots ==
    {Null, Num, Bool, Str(EMPTY), Str(PLAIN), Str(SOPS),
     Str(<<"a">> \o SOPS), List(<<>>), List(<<Str(KEY_A)>>),
     List(<<Str(SOPS)>>), List(<<Str(SOPS), Str(KEY_A)>>),
     List(<<Str(SOPS), Num>>), List(<<Str(ENC_X), Str(SOPS)>>)}

Content(kind, err, doc) == [kind |-> kind, err |-> err, doc |-> doc]

Unloadable ==
    {Content("missing", "", Null), Content("undecodable", "", Null),
     Content("malformed", "ParserError", Null),
     Content("malformed", "ScannerError", Null)}

OtherContents == Unloadable \cup {Content("ok", "", d) : d \in NonMappingRoots}

\* A few contents for runs over several files.
MainContents ==
    Unloadable \cup
    {Content("ok", "", Dict(<<SOPS, KEY_A>>, <<Dict(<<>>, <<>>), Str(ENC_X)>>)),
     Content("ok", "", Dict(<<KEY_A>>, <<Str(PLAIN)>>)),
     Content("ok", "", Dict(<<SOPS, KEY_A, KEY_B>>,
                            <<Dict(<<>>, <<>>), Str(PLAIN), Str(ENC_X)>>)),
     Content("ok", "", Null)}

Config(kind, regex) == [kind |-> kind, regex |-> regex]

Wrap(body) == <<"^", "(">> \o body \o <<")", "$">>

\* The bodies of the encrypted_regex strings "^(" + body + ")$" tried
RegexBodies ==
    {<<"a">>,
     <<"a", "|", "s", "o", "p", "s">>,
     <<".">>,
     <<"(", "a", "|", "b", ")">>}

Configs ==
    {Config("absent", <<>>), Config("parser_error", <<>>),
     Config("other_error", <<>>), Config("bad_shape", <<>>)}
    \cup {Config("ok", Wrap(b)) : b \in RegexBodies}

F_YAML == <<"f", ".", "y", "a", "m", "l">>
G_JSON == <<"g", ".", "j", "s", "o", "n">>
FileNames == {F_YAML, G_JSON}

Range(q) == {q[j] : j \in 1..Len(q)}

Start ==
    /\ i = 1
    /\ failed_messages = <<>>
    /\ results = <<>>
    /\ pc = "loop"
    /\ exit_code = -1
    /\ stdout = <<>>

\* One file.  Under either filename it is unloadable, or holds a document whose
\* root is not a mapping, or one of MainContents.  Under f.yaml it also holds
\* every document whose root is a mapping with up to MaxNodes nodes under
\* distinct top-level keys, in every key order, without the metadata key or
\* with it at any position (a text that parses is loaded alike by both parsers).
Init ==
    /\ \/ /\ argv \in {<<f>> : f \in FileNames}
          /\ \E c \in OtherContents \cup MainContents : fs = [f \in Range(argv) |-> c]
       \/ /\ argv = <<F_YAML>>
          /\ \E n \in 0..MaxNodes :
                \E g \in {h \in Forest(n) : Len(h) <= Cardinality(PlainKeys)} :
                   \E ks \in InjSeqs(PlainKeys, Len(g)) :
                      \E d \in WithMetadata(Dict(ks, g)) :
                         fs = [f \in Range(argv) |-> Content("ok", "", d)]
    /\ cfg \in Configs
    /\ Start

\* Up to MaxFiles files
InitMain ==
    /\ argv \in UNION {[1..n -> FileNames] : n \in 1..MaxFiles}
    /\ fs \in [Range(argv) -> MainContents]
    /\ cfg \in Configs
    /\ Start

Spec == Init /\ [][Next]_vars

SpecMain == InitMain /\ [][Next]_vars

----------------------------------------------------------------------------
(* What the claims speak of *)

Calls == 1..Len(results)
FileOf(j) == argv[j]
ContentOf(j) == fs[argv[j]]
DocOf(j) == fs[argv[j]].doc

\* the file of call j parsed, and its root is a mapping
MappingDoc(j) == ContentOf(j).kind = "ok" /\ DocOf(j).t = "dict"

HasMetadataKey(doc) == \E n \in 1..Len(doc.keys) : doc.keys[n] = SOPS

\* the leaves of a value: what is reached through lists and dicts and is neither
RECURSIVE LeavesOf(_)
LeavesOf(v) ==
    IF v.t \in {"list", "dict"}
    THEN UNION {LeavesOf(v.kids[n]) : n \in 1..Len(v.kids)}
    ELSE {v}

\* a leaf as the encryption tool writes it: a string, empty or E N C [ ...
EncryptedLeaf(l) ==
    /\ l.t = "str"
    /\ \/ Len(l.s) = 0
       \/ Len(l.s) >= 4 /\ l.s[1] = "E" /\ l.s[2] = "N" /\ l.s[3] = "C" /\ l.s[4] = "["

HasPlainLeaf(v) == \E l \in LeavesOf(v) : ~EncryptedLeaf(l)

NotProperlyEncryptedTexts == {NOT_VALID_TEXT, NO_SOPS_TEXT}

\* .sops.yaml is not there, or it is there and defines no encrypted_regex
NoFilterConfigured == cfg.kind \in {"absent", "bad_shape"}

ConfigLoadFails == cfg.kind \in {"absent", "parser_error", "other_error", "bad_shape"}

\* p matches k as a regular expression, for patterns made of literal characters
\* and "." (any one character)
RegexMatch(p, k) ==
    /\ Len(p) = Len(k)
    /\ \A n \in 1..Len(p) : p[n] = "." \/ p[n] = k[n]

\* the messages of the failing verdicts, in order
RECURSIVE FailingMessages(_)
FailingMessages(rs) ==
    IF rs = <<>> THEN <<>>
    ELSE (IF rs[1].valid THEN <<>> ELSE <<rs[1].message>>) \o FailingMessages(Tail(rs))

----------------------------------------------------------------------------
(* Claims *)

\* C1: a document whose root is a mapping without the key "sops" gets the
\* verdict valid = false, with a message that names the file and says it is not
\* properly encrypted, whatever .sops.yaml holds and whatever the other keys hold.
C1_NoMetadataKeyFails ==
    \A j \in Calls :
        (MappingDoc(j) /\ ~HasMetadataKey(DocOf(j)))
        => /\ results[j].outcome = "return"
           /\ ~results[j].valid
           /\ results[j].message.prefix = FileOf(j)
           /\ results[j].message.text \in NotProperlyEncryptedTexts

\* C1 witness: all values encrypted, no metadata key, .sops.yaml unparsable
C1_Witness ==
    /\ Len(results) = 1
    /\ MappingDoc(1)
    /\ ~HasMetadataKey(DocOf(1))
    /\ Len(DocOf(1).keys) = 2
    /\ ~HasPlainLeaf(DocOf(1))
    /\ cfg.kind = "parser_error"
    /\ ~results[1].valid

\* C2: with no key filter configured, a document that has the key "sops" and
\* whose leaves, at any depth, are all strings that are empty or start with
\* ENC[ gets the verdict valid = true.
C2_AllEncryptedPasses ==
    \A j \in Calls :
        (MappingDoc(j) /\ HasMetadataKey(DocOf(j)) /\ NoFilterConfigured
         /\ ~HasPlainLeaf(DocOf(j)))
        => results[j].outcome = "return" /\ results[j].valid

\* C2 witness: an empty string two containers deep, beside the metadata key
C2_Witness ==
    /\ Len(results) = 1
    /\ MappingDoc(1)
    /\ HasMetadataKey(DocOf(1))
    /\ cfg.kind = "absent"
    /\ \E n \in 1..Len(DocOf(1).keys) :
          /\ DocOf(1).keys[n] # SOPS
          /\ DocOf(1).kids[n].t \in {"list", "dict"}
          /\ \E m \in 1..Len(DocOf(1).kids[n].kids) :
                /\ DocOf(1).kids[n].kids[m].t \in {"list", "dict"}
                /\ Str(EMPTY) \in LeavesOf(DocOf(1).kids[n].kids[m])
    /\ results[1].valid

\* the checked keys of call j whose value holds a plaintext leaf, in document order
OffendingKeys(j) ==
    LET doc == DocOf(j)
        off == SelectSeq(Positions(Len(doc.keys)),
                         LAMBDA n : /\ InList(doc.keys[n], results[j].checked)
                                    /\ HasPlainLeaf(doc.kids[n]))
    IN [n \in 1..Len(off) |-> doc.keys[off[n]]]

\* C3: for a document with the metadata key, the offending keys are the checked
\* keys whose value holds a non-string leaf or a non-empty string that does not
\* start with ENC[, in document order; if there are any the verdict is
\* valid = false and the message lists exactly them, comma-joined; otherwise the
\* verdict is valid = true.
C3_OffendingKeysListed ==
    \A j \in Calls :
        (MappingDoc(j) /\ HasMetadataKey(DocOf(j)))
        => /\ results[j].outcome = "return"
           /\ IF OffendingKeys(j) # <<>>
              THEN /\ ~results[j].valid
                   /\ results[j].message.prefix = FileOf(j)
                   /\ results[j].message.text = UNENCRYPTED_TEXT
                   /\ results[j].message.keys = Join(OffendingKeys(j), COMMA)
              ELSE results[j].valid

\* C4: a top-level key is subjected to the leaf rule if and only if it is not
\* "sops" and either no filter is configured or it matches one of the filter's
\* patterns as a regular expression.
C4_CheckedIffMatches ==
    \A j \in Calls :
        (MappingDoc(j) /\ results[j].scanned)
        => \A n \in 1..Len(DocOf(j).keys) :
              LET k == DocOf(j).keys[n]
                  filter == results[j].encrypted_regex
              IN InList(k, results[j].checked)
                 <=> /\ k # SOPS
                     /\ \/ filter = <<>>
                        \/ \E m \in 1..Len(filter) : RegexMatch(filter[m], k)

\* C5: every failure while loading .sops.yaml is swallowed: the verdict is the
\* one given with no configuration at all, and no message is about the
\* configuration.
C5_ConfigFailureSwallowed ==
    \A j \in Calls :
        ConfigLoadFails
        => /\ results[j] = check_file(FileOf(j), ContentOf(j), Config("absent", <<>>))
           /\ results[j].message.prefix # SOPS_CONFIG

C7_EveryFileChecked ==
    pc # "loop" => Len(results) = Len(argv)

\* C8: a file whose content the chosen parser cannot parse gets the verdict
\* valid = false with the message "Not valid JSON or YAML, is not properly
\* encrypted", for JSON as for YAML.
C8_UnparsableGetsVerdict ==
    \A j \in Calls :
        ContentOf(j).kind = "malformed"
        => /\ results[j].outcome = "return"
           /\ ~results[j].valid
           /\ results[j].message = Msg(FileOf(j), NOT_VALID_TEXT, <<>>)

\* C9: for an encrypted_regex "^(" + body + ")$" the pattern list is body split
\* on "|", no other character of body removed.
C9_PatternsAreBodySplit ==
    \A j \in Calls :
        (results[j].scanned /\ cfg.kind = "ok"
         /\ Len(cfg.regex) >= 4
         /\ cfg.regex = Wrap(SubSeq(cfg.regex, 3, Len(cfg.regex) - 2)))
        => results[j].encrypted_regex
               = Split(SubSeq(cfg.regex, 3, Len(cfg.regex) - 2), PIPE)

\* C10: a parsed document whose root is not a mapping gets the verdict
\* valid = false; no error is raised and the verdict is never valid = true.
C10_NonMappingRootFails ==
    \A j \in Calls :
        (ContentOf(j).kind = "ok" /\ DocOf(j).t # "dict")
        => results[j].outcome = "return" /\ ~results[j].valid

====
